---- MODULE Spec2Model ----
(***************************************************************************)
(* Verification model of the mp3 firmware's two core primitives:           *)
(*   - the task lifecycle wrappers ActiveObject (active_object.cc) and     *)
(*     Component (component.cc): start / join / request_stop / destructor  *)
(*     on the owning side, and the task_wrapper lambda on the task thread; *)
(*   - the typed Mailbox (mailbox.hpp) over an ESP-IDF no-split ring       *)
(*     buffer.                                                             *)
(* Spec is the task lifecycle, FairSpec the same under the scheduler's     *)
(* fairness, MailboxSpec the mailbox.                                      *)
(***************************************************************************)
EXTENDS Integers, Sequences, FiniteSets, TLC

(* ------------------------------ bounds --------------------------------- *)

\* Kernel threads one task object may create in a behaviour.
MaxStarts == 2

Tids == 1..MaxStarts

\* std::nullopt in task_handle_.
NoHandle == 0

\* Threads that send into the one mailbox.
NumSenders == 2

Senders == 1..NumSenders

\* Regions reserved in the mailbox's channel in a behaviour.
MaxSends == 3

\* Capacity in bytes the mailbox is constructed with: room for two records
\* of a declared type.
MailboxCapacity == 40

\* The longest list of declared types of a mailbox.
MaxTypes == 257

VARIABLES
  cls,               \* which wrapper the object is: "ActiveObject" | "Component"
  detached_,         \* Component::detached_ (fixed at construction)
  thread_period_ms_, \* TRUE iff a period is configured
  task_handle_,      \* NoHandle or the thread id stored in the optional
  join_sem_handle_,  \* TRUE iff non-null
  sem,               \* count of the binary semaphore in join_sem_buffer_
  done_,             \* ActiveObject::done_
  should_terminate_, \* Component::should_terminate_
  thr,               \* per created thread: position in task_wrapper
  nStarts,           \* threads created so far
  opc,               \* position of the owning thread
  handle,            \* start()'s local `TaskHandle_t handle`
  lastOp,            \* last start()/join() that returned, and its result
  opTick,            \* flips whenever start()/join() returns
  phase,             \* "fresh" | "started" (thread created) | "joined"
  joins,             \* join() calls returned since the last thread creation
  subReleased,       \* the subclass part of the object has been destroyed
  released,          \* the whole object has been destroyed
  uaf,               \* a thread touched object state after its release
  nTypes,            \* number of types in the mailbox's ExplicitMessageTypes
  handle_,           \* Mailbox::handle_: TRUE iff the ring buffer was created
  ring,              \* the ring buffer's items, oldest reservation first
  snd,               \* per sender: position in send_message / blob send
  rcv,               \* the receiver: position and the RecvHandle it holds
  sent,              \* per reservation, in order: what its sender sends
  commitLog,         \* reservation ids in xRingbufferSendComplete order
  recvLog,           \* records in the order acquire_recv_handle returned them
  sendFails,         \* flips whenever a send returns false / nothing
  crashed,           \* the program was aborted
  blocked,           \* ActiveObject::join: ms blocked in the current take, ms
                     \* since the caller's watchdog was reset, takes timed out
  timer,             \* a periodic loop and the tick count it runs against
  demo,              \* app_main and its two TestComponents (main.cc)
  wifi,              \* the WifiObject, its mailbox and the access point
  sd                 \* SDCard::get_ordered_mp3_files and the card it reads

taskVars == <<cls, detached_, thread_period_ms_, task_handle_, join_sem_handle_,
              sem, done_, should_terminate_, thr, nStarts, opc, handle, lastOp,
              opTick, phase, joins, subReleased, released, uaf, blocked>>

mbVars == <<nTypes, handle_, ring, snd, rcv, sent, commitLog, recvLog,
            sendFails, crashed>>

\* The concrete tasks and the clock.
compVars == <<timer, demo, wifi, sd>>

vars == <<taskVars, mbVars, compVars>>

\* The state outside the task object.
offTask == <<mbVars, compVars>>

\* The state outside the mailbox.
offMailbox == <<taskVars, compVars>>

\* What every step but the wait in ActiveObject::join leaves alone.
noWait == <<offTask, blocked>>

\* Fixed at construction.
fixedVars == <<cls, detached_, thread_period_ms_>>

\* Fixed by the mailbox's type and its constructor.
mbFixed == <<nTypes, handle_>>

\* The fields of the task object proper.
objVars == <<task_handle_, join_sem_handle_, sem, done_, should_terminate_>>

ghostVars == <<lastOp, opTick, phase, joins>>

IsAO == cls = "ActiveObject"

IsComp == cls = "Component"

\* Positions at which the thread no longer reads or writes the object,
\* except Component's final clear of task_handle_ at "clear".
AfterGive == {"none", "wdt_delete", "clear", "vdelete", "dead"}

Alive(t) == thr[t].pc \notin {"none", "dead"}

\* The loop's stop condition as the thread would read it now.
StopFlag == IF IsAO THEN done_ ELSE should_terminate_

(* --------------------------- small helpers ----------------------------- *)

Goto(t, p) == thr' = [thr EXCEPT ![t].pc = p]

\* A read of a flag of the object: any value once the object is released.
ReadFlag(v) == IF released THEN BOOLEAN ELSE {v}

\* The step reads or writes the base object (base) or runs subclass code (sub).
Touch(base, sub) == uaf' = (uaf \/ (base /\ released) \/ (sub /\ subReleased))

\* start()/join() returns ret to the owner, which continues at p.
Return(op, ret, p) ==
  /\ lastOp' = [op |-> op, ret |-> ret]
  /\ opTick' = 1 - opTick
  /\ opc' = p

\* Where join() returns to: the API caller, or the destructor that called it.
AfterJoin == IF subReleased THEN "release" ELSE "idle"

JoinAt == {"idle", "dtor_join"}

\* The caller of join() as it enters the wait, and outside join().
NotBlocked == [take |-> 0, unfed |-> 0, retries |-> 0]

\* A thread about to run task_wrapper from position first: it is not
\* subscribed to the task watchdog ("none"; "on" once subscribed, "off" once
\* unsubscribed) and has called nothing yet.  adds, dels and inits count its
\* calls of esp_task_wdt_add, esp_task_wdt_delete and initialize(); pets
\* counts its calls of esp_task_wdt_reset since initialize() or the work unit
\* was entered last; stray records a reset made while not subscribed.
NewThread(first) ==
  [pc |-> first, lateUnits |-> 0, lateWaits |-> 0, wdt |-> "none",
   adds |-> 0, dels |-> 0, inits |-> 0, pets |-> 0, stray |-> FALSE]

\* Counters stop at 2: enough to tell "exactly once" from "more than once".
Count(n) == IF n < 2 THEN n + 1 ELSE n

\* esp_task_wdt_add(nullptr) by a thread whose record is r.
esp_task_wdt_add(r) == [r EXCEPT !.wdt = "on", !.adds = Count(@)]

\* esp_task_wdt_reset() by a thread whose record is r.
esp_task_wdt_reset(r) ==
  [r EXCEPT !.pets = Count(@), !.stray = @ \/ r.wdt # "on"]

\* esp_task_wdt_delete(nullptr) by a thread whose record is r.
esp_task_wdt_delete(r) == [r EXCEPT !.wdt = "off", !.dels = Count(@)]

TaskInit ==
  /\ cls \in {"ActiveObject", "Component"}
  /\ detached_ \in (IF cls = "Component" THEN BOOLEAN ELSE {FALSE})
  /\ thread_period_ms_ \in (IF cls = "ActiveObject" THEN BOOLEAN ELSE {TRUE})
  /\ task_handle_ = NoHandle
  /\ join_sem_handle_ = FALSE
  /\ sem = 0
  /\ done_ = FALSE
  /\ should_terminate_ = FALSE
  /\ thr = [t \in Tids |-> NewThread("none")]
  /\ nStarts = 0
  /\ opc = "idle"
  /\ handle = NoHandle
  /\ lastOp = [op |-> "none", ret |-> FALSE]
  /\ opTick = 0
  /\ phase = "fresh"
  /\ joins = 0
  /\ subReleased = FALSE
  /\ released = FALSE
  /\ uaf = FALSE
  /\ blocked = NotBlocked

(* ------------------------- ActiveObject: owner ------------------------- *)

\* constexpr std::uint32_t kJoinWaitMs: the timeout of one take in join().
kJoinWaitMs == 500

\* The step by which blocked time advances.
JoinQuantum == kJoinWaitMs \div 2

\* xTaskCreatePinnedToCore / xTaskCreate succeeded: thread nStarts+1 exists
\* and starts at position first; the owner still has to store the handle.
Spawn(first) ==
  /\ thr' = [thr EXCEPT ![nStarts + 1] = NewThread(first)]
  /\ nStarts' = nStarts + 1
  /\ handle' = nStarts + 1
  /\ opc' = "start_store"
  /\ phase' = "started"
  /\ joins' = 0
  /\ UNCHANGED <<lastOp, opTick>>

\* Mutant of AO_start: the handle is stored whenever the uninitialised local
\* `handle` is non-null, without the `result == pdPASS` test.
AO_start_stores_garbage ==
  /\ IsAO /\ opc = "idle"
  /\ \/ /\ task_handle_ # NoHandle
        /\ Return("start", FALSE, "idle")
        /\ UNCHANGED <<objVars, thr, nStarts, handle, phase, joins>>
     \/ /\ task_handle_ = NoHandle
        /\ join_sem_handle_' = TRUE
        /\ sem' = 0
        /\ UNCHANGED <<done_, should_terminate_>>
        /\ \E created \in BOOLEAN :
             IF created /\ nStarts < MaxStarts
             THEN Spawn("wdt_add") /\ UNCHANGED task_handle_
             ELSE /\ Return("start", FALSE, "idle")
                  /\ task_handle_' = -1
                  /\ UNCHANGED <<thr, nStarts, handle, phase, joins>>
  /\ UNCHANGED <<noWait, fixedVars, subReleased, released, uaf>>

\* Mutant of AO_start: a start() that creates the semaphore also resets
\* done_, so that a task marked done can be started again.
AO_start_resets_done ==
  /\ IsAO /\ opc = "idle"
  /\ \/ /\ task_handle_ # NoHandle
        /\ Return("start", FALSE, "idle")
        /\ UNCHANGED <<objVars, thr, nStarts, handle, phase, joins>>
     \/ /\ task_handle_ = NoHandle
        /\ join_sem_handle_' = TRUE
        /\ sem' = 0
        /\ done_' = FALSE
        /\ UNCHANGED <<task_handle_, should_terminate_>>
        /\ \E created \in BOOLEAN :
             IF created /\ nStarts < MaxStarts
             THEN Spawn("wdt_add")
             ELSE /\ Return("start", FALSE, "idle")
                  /\ UNCHANGED <<thr, nStarts, handle, phase, joins>>
  /\ UNCHANGED <<noWait, fixedVars, subReleased, released, uaf>>

\* ActiveObject::start up to the return of xTaskCreatePinnedToCore.
\* xSemaphoreCreateBinaryStatic on the object's own buffer cannot fail and
\* leaves the semaphore empty.
AO_start ==
  /\ IsAO /\ opc = "idle"
  /\ \/ /\ task_handle_ # NoHandle
        /\ Return("start", FALSE, "idle")
        /\ UNCHANGED <<objVars, thr, nStarts, handle, phase, joins>>
     \/ /\ task_handle_ = NoHandle
        /\ join_sem_handle_' = TRUE
        /\ sem' = 0
        /\ UNCHANGED <<task_handle_, done_, should_terminate_>>
        /\ \E created \in BOOLEAN :
             IF created /\ nStarts < MaxStarts
             THEN Spawn("wdt_add")
             ELSE /\ Return("start", FALSE, "idle")
                  /\ UNCHANGED <<thr, nStarts, handle, phase, joins>>
  /\ UNCHANGED <<noWait, fixedVars, subReleased, released, uaf>>

\* ActiveObject::start, `task_handle_ = handle; return result == pdPASS`.
AO_start_store ==
  /\ IsAO /\ opc = "start_store"
  /\ task_handle_' = handle
  /\ Return("start", TRUE, "idle")
  /\ UNCHANGED <<join_sem_handle_, sem, done_, should_terminate_, thr, nStarts,
                 handle, phase, joins>>
  /\ UNCHANGED <<noWait, fixedVars, subReleased, released, uaf>>

\* ActiveObject::join up to the first xSemaphoreTake.
AO_join ==
  /\ IsAO /\ opc \in JoinAt
  /\ IF ~join_sem_handle_ \/ task_handle_ = NoHandle
     THEN /\ Return("join", FALSE, AfterJoin)
          /\ joins' = IF joins < 2 THEN joins + 1 ELSE joins
     ELSE /\ opc' = "join_wait"
          /\ UNCHANGED <<lastOp, opTick, joins>>
  /\ blocked' = NotBlocked
  /\ UNCHANGED <<objVars, thr, nStarts, handle, phase>>
  /\ UNCHANGED <<offTask, fixedVars, subReleased, released, uaf>>

\* The caller stays blocked in xSemaphoreTake for another JoinQuantum ms.
AO_join_block ==
  /\ IsAO /\ opc = "join_wait"
  /\ sem = 0 /\ blocked.take < kJoinWaitMs
  /\ blocked' = [blocked EXCEPT !.take = @ + JoinQuantum,
                                !.unfed = @ + JoinQuantum]
  /\ UNCHANGED <<objVars, thr, nStarts, opc, handle, ghostVars>>
  /\ UNCHANGED <<offTask, fixedVars, subReleased, released, uaf>>

\* Mutant of AO_join_timeout: the loop retries without esp_task_wdt_reset.
AO_join_timeout_no_pet ==
  /\ IsAO /\ opc = "join_wait"
  /\ sem = 0 /\ blocked.take = kJoinWaitMs
  /\ blocked' = [blocked EXCEPT !.take = 0, !.retries = Count(@)]
  /\ UNCHANGED <<objVars, thr, nStarts, opc, handle, ghostVars>>
  /\ UNCHANGED <<offTask, fixedVars, subReleased, released, uaf>>

\* ActiveObject::join, an xSemaphoreTake that times out after kJoinWaitMs:
\* esp_task_wdt_reset(), then the next take.
AO_join_timeout ==
  /\ IsAO /\ opc = "join_wait"
  /\ sem = 0 /\ blocked.take = kJoinWaitMs
  /\ blocked' = [blocked EXCEPT !.take = 0, !.unfed = 0, !.retries = Count(@)]
  /\ UNCHANGED <<objVars, thr, nStarts, opc, handle, ghostVars>>
  /\ UNCHANGED <<offTask, fixedVars, subReleased, released, uaf>>

\* Mutant of AO_join_take: join() returns true without clearing the guards.
AO_join_take_keeps_guards ==
  /\ IsAO /\ opc = "join_wait"
  /\ sem = 1
  /\ sem' = 0
  /\ Return("join", TRUE, AfterJoin)
  /\ joins' = IF joins < 2 THEN joins + 1 ELSE joins
  /\ phase' = "joined"
  /\ blocked' = [NotBlocked EXCEPT !.retries = blocked.retries]
  /\ UNCHANGED <<task_handle_, join_sem_handle_, done_, should_terminate_, thr,
                 nStarts, handle>>
  /\ UNCHANGED <<offTask, fixedVars, subReleased, released, uaf>>

\* ActiveObject::join, an xSemaphoreTake that succeeds, and the clearing of
\* the guards.
AO_join_take ==
  /\ IsAO /\ opc = "join_wait"
  /\ sem = 1
  /\ sem' = 0
  /\ task_handle_' = NoHandle
  /\ join_sem_handle_' = FALSE
  /\ Return("join", TRUE, AfterJoin)
  /\ joins' = IF joins < 2 THEN joins + 1 ELSE joins
  /\ phase' = "joined"
  /\ blocked' = [NotBlocked EXCEPT !.retries = blocked.retries]
  /\ UNCHANGED <<done_, should_terminate_, thr, nStarts, handle>>
  /\ UNCHANGED <<offTask, fixedVars, subReleased, released, uaf>>

\* ActiveObject::~ActiveObject: mark_as_done(), then join().
AO_dtor ==
  /\ IsAO /\ opc = "dtor_base"
  /\ done_' = TRUE
  /\ opc' = "dtor_join"
  /\ UNCHANGED <<task_handle_, join_sem_handle_, sem, should_terminate_, thr,
                 nStarts, handle, ghostVars>>
  /\ UNCHANGED <<noWait, fixedVars, subReleased, released, uaf>>

(* -------------------------- Component: owner --------------------------- *)

\* Component::start up to the return of xTaskCreate.
Component_start ==
  /\ IsComp /\ opc = "idle"
  /\ \/ /\ task_handle_ # NoHandle
        /\ Return("start", FALSE, "idle")
        /\ UNCHANGED <<objVars, thr, nStarts, handle, phase, joins>>
     \/ /\ task_handle_ = NoHandle
        /\ join_sem_handle_' = TRUE
        /\ sem' = 0
        /\ UNCHANGED <<task_handle_, done_, should_terminate_>>
        /\ \E created \in BOOLEAN :
             IF created /\ nStarts < MaxStarts
             THEN Spawn("settle")
             ELSE /\ Return("start", FALSE, "idle")
                  /\ UNCHANGED <<thr, nStarts, handle, phase, joins>>
  /\ UNCHANGED <<noWait, fixedVars, subReleased, released, uaf>>

\* Component::start, `task_handle_ = handle; return result == pdPASS`.
Component_start_store ==
  /\ IsComp /\ opc = "start_store"
  /\ task_handle_' = handle
  /\ Return("start", TRUE, "idle")
  /\ UNCHANGED <<join_sem_handle_, sem, done_, should_terminate_, thr, nStarts,
                 handle, phase, joins>>
  /\ UNCHANGED <<noWait, fixedVars, subReleased, released, uaf>>

\* Mutant of Component_join: the `|| detached_` test is missing.
Component_join_ignores_detached ==
  /\ IsComp /\ opc \in JoinAt
  /\ IF task_handle_ = NoHandle \/ ~join_sem_handle_
     THEN /\ Return("join", FALSE, AfterJoin)
          /\ joins' = IF joins < 2 THEN joins + 1 ELSE joins
     ELSE /\ opc' = "join_wait"
          /\ UNCHANGED <<lastOp, opTick, joins>>
  /\ UNCHANGED <<objVars, thr, nStarts, handle, phase>>
  /\ UNCHANGED <<noWait, fixedVars, subReleased, released, uaf>>

\* Component::join up to xSemaphoreTake(join_sem_handle_, portMAX_DELAY).
Component_join ==
  /\ IsComp /\ opc \in JoinAt
  /\ IF task_handle_ = NoHandle \/ detached_ \/ ~join_sem_handle_
     THEN /\ Return("join", FALSE, AfterJoin)
          /\ joins' = IF joins < 2 THEN joins + 1 ELSE joins
     ELSE /\ opc' = "join_wait"
          /\ UNCHANGED <<lastOp, opTick, joins>>
  /\ UNCHANGED <<objVars, thr, nStarts, handle, phase>>
  /\ UNCHANGED <<noWait, fixedVars, subReleased, released, uaf>>

\* Mutant of Component_join_take: the take does not wait for the give (a
\* take whose timeout is taken for success).
Component_join_take_no_wait ==
  /\ IsComp /\ opc = "join_wait"
  /\ sem' = 0
  /\ Return("join", TRUE, AfterJoin)
  /\ joins' = IF joins < 2 THEN joins + 1 ELSE joins
  /\ phase' = "joined"
  /\ UNCHANGED <<task_handle_, join_sem_handle_, done_, should_terminate_, thr,
                 nStarts, handle>>
  /\ UNCHANGED <<noWait, fixedVars, subReleased, released, uaf>>

\* Component::join, xSemaphoreTake returns: `return true`, nothing cleared.
Component_join_take ==
  /\ IsComp /\ opc = "join_wait"
  /\ sem = 1
  /\ sem' = 0
  /\ Return("join", TRUE, AfterJoin)
  /\ joins' = IF joins < 2 THEN joins + 1 ELSE joins
  /\ phase' = "joined"
  /\ UNCHANGED <<task_handle_, join_sem_handle_, done_, should_terminate_, thr,
                 nStarts, handle>>
  /\ UNCHANGED <<noWait, fixedVars, subReleased, released, uaf>>

\* Component::request_stop, callable from any thread while the object lives.
Component_request_stop ==
  /\ IsComp /\ opc \in {"idle", "start_store", "join_wait"}
  /\ ~should_terminate_
  /\ should_terminate_' = TRUE
  /\ UNCHANGED <<task_handle_, join_sem_handle_, sem, done_, thr, nStarts, opc,
                 handle, ghostVars>>
  /\ UNCHANGED <<noWait, fixedVars, subReleased, released, uaf>>

\* Component::~Component: request_stop() and join() unless detached.
Component_dtor ==
  /\ IsComp /\ opc = "dtor_base"
  /\ IF detached_
     THEN /\ opc' = "release"
          /\ UNCHANGED should_terminate_
     ELSE /\ opc' = "dtor_join"
          /\ should_terminate_' = TRUE
  /\ UNCHANGED <<task_handle_, join_sem_handle_, sem, done_, thr, nStarts,
                 handle, ghostVars>>
  /\ UNCHANGED <<noWait, fixedVars, subReleased, released, uaf>>

(* ------------------- destruction of the concrete task ------------------ *)

\* The concrete task's destructor (TestComponent's is implicit) runs first:
\* the subclass members (mailbox_, sender_, counter_) are destroyed before
\* the base class destructor is entered.
Subclass_dtor ==
  /\ opc = "idle"
  /\ subReleased' = TRUE
  /\ opc' = "dtor_base"
  /\ UNCHANGED <<objVars, thr, nStarts, handle, ghostVars>>
  /\ UNCHANGED <<noWait, fixedVars, released, uaf>>

\* The base destructor has returned: the base members are released.
Release ==
  /\ opc = "release"
  /\ released' = TRUE
  /\ opc' = "destroyed"
  /\ UNCHANGED <<objVars, thr, nStarts, handle, ghostVars>>
  /\ UNCHANGED <<noWait, fixedVars, subReleased, uaf>>

(* ----------------------- the task thread: helpers ---------------------- *)

\* A step of thread t to position p that changes nothing of the object.
Local(t, p, base, sub) ==
  /\ Goto(t, p)
  /\ Touch(base, sub)
  /\ UNCHANGED <<objVars, nStarts, opc, handle, ghostVars>>
  /\ UNCHANGED <<noWait, fixedVars, subReleased, released>>

\* A step of thread t after which its record is r (at position p) and that
\* changes nothing of the object.
Move(t, r, p, base, sub) ==
  /\ thr' = [thr EXCEPT ![t] = [r EXCEPT !.pc = p]]
  /\ Touch(base, sub)
  /\ UNCHANGED <<objVars, nStarts, opc, handle, ghostVars>>
  /\ UNCHANGED <<noWait, fixedVars, subReleased, released>>

\* Thread t calls the work unit (task() / task_impl()): subclass code.
BeginUnit(t) ==
  /\ thr' = [thr EXCEPT ![t].pc = "task", ![t].pets = 0,
                        ![t].lateUnits = IF StopFlag /\ @ < 2 THEN @ + 1 ELSE @]
  /\ Touch(TRUE, TRUE)
  /\ UNCHANGED <<objVars, nStarts, opc, handle, ghostVars>>
  /\ UNCHANGED <<noWait, fixedVars, subReleased, released>>

\* Thread t pets the watchdog and, with a period, enters vTaskDelayUntil.
PetAndWait(t) ==
  /\ IF thread_period_ms_
     THEN thr' = [thr EXCEPT ![t] =
                    [esp_task_wdt_reset(@) EXCEPT
                       !.pc = "delay",
                       !.lateWaits = IF StopFlag /\ @ < 2 THEN @ + 1 ELSE @]]
     ELSE thr' = [thr EXCEPT ![t] = [esp_task_wdt_reset(@) EXCEPT !.pc = "test"]]
  /\ Touch(TRUE, FALSE)
  /\ UNCHANGED <<objVars, nStarts, opc, handle, ghostVars>>
  /\ UNCHANGED <<noWait, fixedVars, subReleased, released>>

\* xSemaphoreGive on the binary semaphore, guarded by `if (join_sem_handle_)`.
GiveJoinSem(t, p) ==
  /\ Goto(t, p)
  /\ Touch(TRUE, FALSE)
  /\ sem' = IF join_sem_handle_ /\ ~released THEN 1 ELSE sem
  /\ UNCHANGED <<task_handle_, join_sem_handle_, done_, should_terminate_>>
  /\ UNCHANGED <<nStarts, opc, handle, ghostVars>>
  /\ UNCHANGED <<noWait, fixedVars, subReleased, released>>

\* The thread whose record is r runs initialize(): subclass code.
initialize(r) == [r EXCEPT !.inits = Count(@), !.pets = 0]

(* ---------------- ActiveObject::start, the task_wrapper ---------------- *)

\* esp_task_wdt_add; initialize(); esp_task_wdt_reset; xTaskGetTickCount.
AO_wrapper_enter(t) ==
  \/ /\ thr[t].pc = "wdt_add"
     /\ Move(t, esp_task_wdt_add(thr[t]), "init", FALSE, FALSE)
  \/ /\ thr[t].pc = "init"
     /\ Move(t, initialize(thr[t]), "wdt_reset", TRUE, TRUE)
  \/ /\ thr[t].pc = "wdt_reset"
     /\ Move(t, esp_task_wdt_reset(thr[t]), "tick", FALSE, FALSE)
  \/ thr[t].pc = "tick" /\ Local(t, "test", FALSE, FALSE)

\* Mutant of AO_wrapper_test: the loop never observes done_.
AO_wrapper_test_blind(t) ==
  /\ thr[t].pc = "test"
  /\ Local(t, "call", TRUE, FALSE)

\* `while (!self->done_.load())`.
AO_wrapper_test(t) ==
  /\ thr[t].pc = "test"
  /\ \E d \in ReadFlag(done_) :
       Local(t, IF d THEN "watermark" ELSE "call", TRUE, FALSE)

\* `self->task()` is entered.
AO_wrapper_call(t) ==
  /\ thr[t].pc = "call"
  /\ BeginUnit(t)

\* task() returns; a task may have called mark_as_done() in it.
AO_wrapper_task(t) ==
  /\ thr[t].pc = "task"
  /\ Goto(t, "pet")
  /\ Touch(TRUE, TRUE)
  /\ \E marks \in BOOLEAN : done_' = (done_ \/ (marks /\ ~released))
  /\ UNCHANGED <<task_handle_, join_sem_handle_, sem, should_terminate_>>
  /\ UNCHANGED <<nStarts, opc, handle, ghostVars>>
  /\ UNCHANGED <<noWait, fixedVars, subReleased, released>>

\* esp_task_wdt_reset; `if (thread_period_ms_) vTaskDelayUntil(...)`.
AO_wrapper_pet(t) ==
  /\ thr[t].pc = "pet"
  /\ PetAndWait(t)

\* vTaskDelayUntil returns.
AO_wrapper_wake(t) ==
  /\ thr[t].pc = "delay"
  /\ Local(t, "test", FALSE, FALSE)

\* Mutant of AO_wrapper_exit: the thread clears task_handle_ before it
\* deletes itself, as Component's task_wrapper does.
AO_wrapper_exit_clears_handle(t) ==
  \/ thr[t].pc = "watermark" /\ Local(t, "give", TRUE, FALSE)
  \/ thr[t].pc = "give" /\ GiveJoinSem(t, "wdt_delete")
  \/ /\ thr[t].pc = "wdt_delete"
     /\ thr' = [thr EXCEPT ![t] = [esp_task_wdt_delete(@) EXCEPT !.pc = "vdelete"]]
     /\ Touch(TRUE, FALSE)
     /\ task_handle_' = IF released THEN task_handle_ ELSE NoHandle
     /\ UNCHANGED <<join_sem_handle_, sem, done_, should_terminate_>>
     /\ UNCHANGED <<nStarts, opc, handle, ghostVars>>
     /\ UNCHANGED <<noWait, fixedVars, subReleased, released>>
  \/ thr[t].pc = "vdelete" /\ Local(t, "dead", FALSE, FALSE)

\* After the loop: the stack watermark log, the give, esp_task_wdt_delete,
\* vTaskDelete.
AO_wrapper_exit(t) ==
  \/ thr[t].pc = "watermark" /\ Local(t, "give", TRUE, FALSE)
  \/ thr[t].pc = "give" /\ GiveJoinSem(t, "wdt_delete")
  \/ /\ thr[t].pc = "wdt_delete"
     /\ Move(t, esp_task_wdt_delete(thr[t]), "vdelete", FALSE, FALSE)
  \/ thr[t].pc = "vdelete" /\ Local(t, "dead", FALSE, FALSE)

AO_task_wrapper(t) ==
  /\ IsAO
  /\ \/ AO_wrapper_enter(t)
     \/ AO_wrapper_test(t)
     \/ AO_wrapper_call(t)
     \/ AO_wrapper_task(t)
     \/ AO_wrapper_pet(t)
     \/ AO_wrapper_wake(t)
     \/ AO_wrapper_exit(t)

(* ----------------- Component::start, the task_wrapper ------------------ *)

\* Component::is_running(): the loop runs until a stop was requested.
is_running == ~should_terminate_

\* vTaskDelay(100 ms); esp_task_wdt_add; initialize(); esp_task_wdt_reset;
\* xTaskGetTickCount and the read of thread_period_ms_.
Component_wrapper_enter(t) ==
  \/ thr[t].pc = "settle" /\ Local(t, "wdt_add", FALSE, FALSE)
  \/ /\ thr[t].pc = "wdt_add"
     /\ Move(t, esp_task_wdt_add(thr[t]), "init", FALSE, FALSE)
  \/ /\ thr[t].pc = "init"
     /\ Move(t, initialize(thr[t]), "wdt_reset", TRUE, TRUE)
  \/ /\ thr[t].pc = "wdt_reset"
     /\ Move(t, esp_task_wdt_reset(thr[t]), "tick", FALSE, FALSE)
  \/ thr[t].pc = "tick" /\ Local(t, "test", TRUE, FALSE)

\* `while (self->is_running())`.
Component_wrapper_test(t) ==
  /\ thr[t].pc = "test"
  /\ \E r \in ReadFlag(is_running) :
       Local(t, IF r THEN "call" ELSE "give", TRUE, FALSE)

\* `self->task_impl()` is entered.
Component_wrapper_call(t) ==
  /\ thr[t].pc = "call"
  /\ BeginUnit(t)

\* task_impl() returns.
Component_wrapper_task(t) ==
  /\ thr[t].pc = "task"
  /\ Local(t, "pet", TRUE, TRUE)

\* esp_task_wdt_reset; vTaskDelayUntil(&xLastWakeTime, xPeriod).
Component_wrapper_pet(t) ==
  /\ thr[t].pc = "pet"
  /\ PetAndWait(t)

\* vTaskDelayUntil returns.
Component_wrapper_wake(t) ==
  /\ thr[t].pc = "delay"
  /\ Local(t, "test", FALSE, FALSE)

\* `self->task_handle_ = std::nullopt`, written by the task thread.
Component_wrapper_clear(t) ==
  /\ thr[t].pc = "clear"
  /\ Goto(t, "vdelete")
  /\ Touch(TRUE, FALSE)
  /\ task_handle_' = IF released THEN task_handle_ ELSE NoHandle
  /\ UNCHANGED <<join_sem_handle_, sem, done_, should_terminate_>>
  /\ UNCHANGED <<nStarts, opc, handle, ghostVars>>
  /\ UNCHANGED <<noWait, fixedVars, subReleased, released>>

\* After the loop: the give, the clear of the handle, vTaskDelete.
Component_wrapper_exit(t) ==
  \/ thr[t].pc = "give" /\ GiveJoinSem(t, "clear")
  \/ Component_wrapper_clear(t)
  \/ thr[t].pc = "vdelete" /\ Local(t, "dead", FALSE, FALSE)

Component_task_wrapper(t) ==
  /\ IsComp
  /\ \/ Component_wrapper_enter(t)
     \/ Component_wrapper_test(t)
     \/ Component_wrapper_call(t)
     \/ Component_wrapper_task(t)
     \/ Component_wrapper_pet(t)
     \/ Component_wrapper_wake(t)
     \/ Component_wrapper_exit(t)

(* ------------------- the concrete tasks, not running ------------------- *)

\* No periodic loop is being timed.
TimerOff ==
  [pc |-> "off", P |-> 0, now |-> 0, last_wake_time |-> 0, t0 |-> 0, k |-> 0,
   fin |-> 0, overran |-> FALSE]

\* A TestComponent as constructed: no thread, done_ clear, no handle.
DemoObject ==
  [pc |-> "none", done_ |-> FALSE, task_handle_ |-> FALSE, sem |-> 0,
   joined |-> FALSE]

\* app_main is not running.
DemoOff ==
  [main |-> "off", send |-> DemoObject, recv |-> DemoObject, counter_ |-> 0,
   box |-> <<>>, held |-> FALSE, sentLog |-> <<>>, got |-> <<>>]

\* A WifiObject as constructed (state_{State::kDown}, handle_{nullptr}) over
\* an empty mailbox, the access point not running; its thread not started.
WifiOff ==
  [pc |-> "off", state_ |-> "kDown", handle_ |-> FALSE, ap |-> "down",
   box |-> <<>>, ops |-> <<>>, posts |-> 0, units |-> 0, taken |-> 0,
   last |-> "none"]

\* static constexpr std::size_t kMaxFiles.
kMaxFiles == 32

\* An entry of the result whose first char is \0.
EmptyEntry == [dir |-> "", name |-> ""]

\* `std::array<std::array<char, kMaxPathLength>, kMaxFiles> files{}`.
NoFiles == [j \in 1..kMaxFiles |-> EmptyEntry]

\* No call of get_ordered_mp3_files is in progress.
SdOff ==
  [pc |-> "off", lines |-> <<>>, card |-> {}, read |-> 0, line |-> "",
   files |-> NoFiles, file_count |-> 0]

\* The concrete tasks and the clock in a behaviour that is not about them.
CompIdle == timer = TimerOff /\ demo = DemoOff /\ wifi = WifiOff /\ sd = SdOff

(* ============================== Mailbox ================================ *)
(* One Mailbox<int, float> (the instantiation in main.cc) over its ESP-IDF  *)
(* RINGBUF_TYPE_NOSPLIT ring buffer.  The ring buffer keeps its items in    *)
(* the order of xRingbufferSendAcquire; xRingbufferSendComplete marks an    *)
(* item written, and xRingbufferReceive hands out the oldest item not yet   *)
(* received once it and every item reserved before it are written;          *)
(* vRingbufferReturnItem marks an item returned, and the space of the       *)
(* oldest items is reclaimed once they are returned.  Space is accounted    *)
(* per item as the ring buffer's item header plus the item size rounded up  *)
(* to 4 bytes; the position of the free space in the buffer is not          *)
(* modelled.                                                                *)

\* static constexpr std::uint8_t kBlobTypeId.
kBlobTypeId == 255

\* sizeof(MessageHeader) on the 32-bit target: type_id, padding, payload_size.
HeaderSize == 8

\* The ring buffer's own header in front of every item.
RbItemHeaderSize == 8

\* A byte of a reserved region that has not been written since.
Junk == 256

\* ExplicitMessageTypes of the mailbox: int and float are the last two of
\* the nTypes declared types (main.cc declares these two alone); the types
\* declared ahead of them are ones no sender of the model sends.
MessageTypes ==
  [i \in 1..nTypes |->
     IF i = nTypes - 1 THEN "int" ELSE IF i = nTypes THEN "float" ELSE "other"]

\* The number of types main.cc declares.
DemoTypes == 2

\* The messages senders send: ints, and floats given by their bit pattern
\* read as a 32-bit two's complement number (2.5f is 0x40200000).
Msgs ==
  {[type |-> "int", value |-> 7], [type |-> "int", value |-> -1],
   [type |-> "float", value |-> 1075838976]}

\* Payload sizes of the blobs senders reserve, and what they write.
BlobSizes == {2}

BlobBytes(n) == [i \in 1..n |-> 170 + i]

JunkBytes(n) == [i \in 1..n |-> Junk]

\* The conversion of a std::size_t to the std::uint8_t a function returns.
as_uint8(n) == n % 256

\* get_type_id counting the declared types from one.
get_type_id_from_one(M, Index) ==
  (CHOOSE i \in 1..Len(MessageTypes) : MessageTypes[i] = M) % 256

\* get_type_id<M, Index>(): the scan from Index upward stops at the first
\* position at which M is declared and returns it as uint8_t.
get_type_id(M, Index) ==
  LET At == {i \in Index..(Len(MessageTypes) - 1) : MessageTypes[i + 1] = M}
  IN  as_uint8(CHOOSE i \in At : \A j \in At : i <= j)

\* get_payload_size<M>(): sizeof(M) of a trivially copyable M.
get_payload_size(M) == CASE M = "int" -> 4 [] M = "float" -> 4

\* The object representation std::memcpy copies: 4 little-endian bytes of
\* the 32-bit two's complement pattern.
ObjectBytes(M, v) ==
  LET low == IF v < 0 THEN v + 2147483647 + 1 ELSE v
      top == IF v < 0 THEN 128 ELSE 0
  IN  <<low % 256, (low \div 256) % 256, (low \div 65536) % 256,
        (low \div 16777216) + top>>

\* `*reinterpret_cast<const M*>(payload_.data())`.
reinterpret(M, b) ==
  LET neg == b[4] >= 128
      low == b[1] + 256 * b[2] + 65536 * b[3]
               + 16777216 * (IF neg THEN b[4] - 128 ELSE b[4])
  IN  IF neg THEN low - 2147483647 - 1 ELSE low

\* The arithmetic types, which convert to one another implicitly.
Arithmetic == {"int", "float"}

\* `visitor(msg)` for msg of type M: overload resolution over the visitor's
\* handlers, a visitor being the set of parameter types of its overloads.
\* The handler for M itself is an exact match; failing that, a handler M
\* converts to implicitly is viable; "none" is a call that does not compile.
Overload(visitor, M) ==
  IF M \in visitor THEN M
  ELSE IF M \in Arithmetic /\ (visitor \cap Arithmetic) # {}
       THEN CHOOSE H \in visitor \cap Arithmetic : TRUE
       ELSE "none"

\* The visitors RecvHandle::visit compiles with: visit instantiates the call
\* for the payload span and for every declared type.
Dispatchers ==
  {v \in SUBSET ({"blob"} \cup {MessageTypes[i] : i \in 1..nTypes}) :
     /\ "blob" \in v
     /\ \A i \in 1..nTypes : Overload(v, MessageTypes[i]) # "none"}

\* The visitor of TestComponent::task: float, int and blob handlers.
AllHandlers == {"blob"} \cup {MessageTypes[i] : i \in 1..nTypes}

Pow2(k) == 2 ^ k

\* static_cast<float>(i) as the float's bit pattern, for |i| < 2^24.
int_to_float(i) ==
  LET a == IF i < 0 THEN -i ELSE i
      k == CHOOSE j \in 0..23 : Pow2(j) <= a /\ a < Pow2(j + 1)
      bits == (127 + k) * Pow2(23) + (a - Pow2(k)) * Pow2(23 - k)
  IN  IF i = 0 THEN 0
      ELSE IF i < 0 THEN bits - 2147483647 - 1 ELSE bits

\* static_cast<int>(f) of the float with the given bit pattern: truncation
\* toward zero, for |f| < 2^24.
float_to_int(f) ==
  LET neg == f < 0
      bits == IF neg THEN f + 2147483647 + 1 ELSE f
      e == bits \div Pow2(23)
      m == Pow2(23) + (bits % Pow2(23))
      a == IF e < 127 THEN 0
           ELSE IF e <= 150 THEN m \div Pow2(150 - e) ELSE 0
  IN  IF neg THEN -a ELSE a

\* The implicit conversion of the argument to the handler's parameter type.
convert(M, H, v) ==
  IF M = "int" /\ H = "float" THEN int_to_float(v)
  ELSE IF M = "float" /\ H = "int" THEN float_to_int(v)
  ELSE v

\* RecvHandle::visit_impl<Index>: the scan from Index upward calls the
\* visitor at the position equal to the header's tag, with the payload read
\* as the type declared there, and calls nothing when it runs off the list.
\* The result is the handler the visitor's overload set selects, and the
\* value it gets.
visit_impl(visitor, Index, type_id, payload) ==
  IF type_id \in Index..(Len(MessageTypes) - 1)
  THEN LET M == MessageTypes[type_id + 1]
           H == Overload(visitor, M)
       IN  [handler |-> H, value |-> convert(M, H, reinterpret(M, payload))]
  ELSE [handler |-> "none", value |-> 0]

\* visit without the test for the blob tag.
visit_scans_blob(visitor, type_id, payload) ==
  visit_impl(visitor, 0, type_id, payload)

\* RecvHandle::visit.
visit(visitor, type_id, payload) ==
  IF type_id = kBlobTypeId
  THEN [handler |-> "blob", value |-> payload]
  ELSE visit_impl(visitor, 0, type_id, payload)

Align4(n) == ((n + 3) \div 4) * 4

\* Bytes of the ring buffer an item of total_size bytes occupies.
Footprint(total_size) == RbItemHeaderSize + Align4(total_size)

RECURSIVE Used(_)
Used(r) == IF r = <<>> THEN 0 ELSE Footprint(Head(r).size) + Used(Tail(r))

\* A ring buffer that counts only the committed items as occupied.
Fits_ignores_open(total_size) ==
  Used(SelectSeq(ring, LAMBDA it : it.st # "acquired")) + Footprint(total_size)
    <= MailboxCapacity

\* xRingbufferSendAcquire finds room for total_size bytes.
Fits(total_size) == Used(ring) + Footprint(total_size) <= MailboxCapacity

ItemOf(id) == CHOOSE i \in DOMAIN ring : ring[i].id = id

\* A ring buffer that hands out whatever is written, skipping reservations
\* still open.
Unread_skips_open == SelectSeq(ring, LAMBDA it : it.st = "written")

\* The items still to be received, oldest first.
Unread == SelectSeq(ring, LAMBDA it : it.st \in {"acquired", "written"})

\* xRingbufferReceive has an item to return.
Readable == Unread # <<>> /\ Head(Unread).st = "written"

\* The ring buffer reclaims the oldest items once they are returned.
RECURSIVE DropReturned(_)
DropReturned(r) ==
  IF r # <<>> /\ Head(r).st = "returned" THEN DropReturned(Tail(r)) ELSE r

SetItem(id, it) == [i \in DOMAIN ring |-> IF ring[i].id = id THEN it ELSE ring[i]]

\* send_message returns false, or acquire_send_handle std::nullopt.
SendFails == sendFails' = 1 - sendFails

\* xRingbufferSendAcquire succeeded for sender s: a fresh region of
\* total_size bytes, appended behind the earlier reservations.
Reserve(s, total_size, tag, len, p, what) ==
  /\ ring' = Append(ring, [id |-> Len(sent) + 1, st |-> "acquired",
                           tag |-> tag, len |-> len,
                           data |-> JunkBytes(total_size - HeaderSize),
                           size |-> total_size])
  /\ snd' = [snd EXCEPT ![s] = [pc |-> p, id |-> Len(sent) + 1]]
  /\ sent' = Append(sent, what)

\* xRingbufferSendComplete on the region sender s holds.
Complete(s) ==
  /\ ring' = SetItem(snd[s].id, [ring[ItemOf(snd[s].id)] EXCEPT !.st = "written"])
  /\ commitLog' = Append(commitLog, snd[s].id)
  /\ snd' = [snd EXCEPT ![s] = [pc |-> "idle", id |-> 0]]

\* The receiver holds no RecvHandle.
NoRecvHandle ==
  [pc |-> "idle", id |-> 0, tag |-> 0, len |-> 0, visitor |-> {},
   visit |-> [handler |-> "none", value |-> 0]]

MbInit ==
  /\ handle_ \in BOOLEAN
  /\ ring = <<>>
  /\ snd = [s \in Senders |-> [pc |-> "idle", id |-> 0]]
  /\ rcv = NoRecvHandle
  /\ sent = <<>>
  /\ commitLog = <<>>
  /\ recvLog = <<>>
  /\ sendFails = 0
  /\ crashed = FALSE

\* The mailbox of a behaviour of the task lifecycle alone: unused.
MbIdle == MbInit /\ handle_ /\ nTypes = DemoTypes

\* send_message reporting failure although the region was reserved.
send_message_fails_after_reserve(s) ==
  /\ ~crashed /\ snd[s].pc = "idle"
  /\ \E m \in Msgs :
       /\ handle_ /\ Len(sent) < MaxSends
       /\ Fits(HeaderSize + get_payload_size(m.type))
       /\ Reserve(s, HeaderSize + get_payload_size(m.type), Junk, Junk,
                  "write", m)
       /\ SendFails
  /\ UNCHANGED <<mbFixed, rcv, commitLog, recvLog, crashed, offMailbox>>

\* Mailbox::send_message<M> up to the return of xRingbufferSendAcquire; with
\* no room the call returns false when its timeout expires.
send_message(s) ==
  /\ ~crashed /\ snd[s].pc = "idle"
  /\ \E m \in Msgs :
       IF handle_ /\ Fits(HeaderSize + get_payload_size(m.type))
       THEN /\ Len(sent) < MaxSends
            /\ Reserve(s, HeaderSize + get_payload_size(m.type), Junk, Junk,
                       "write", m)
            /\ UNCHANGED sendFails
       ELSE /\ SendFails
            /\ UNCHANGED <<ring, snd, sent>>
  /\ UNCHANGED <<mbFixed, rcv, commitLog, recvLog, crashed, offMailbox>>

\* send_message: the header and the payload are written into the region.
send_message_write(s) ==
  /\ ~crashed /\ snd[s].pc = "write"
  /\ LET m == sent[snd[s].id]
     IN  ring' = SetItem(snd[s].id,
                   [ring[ItemOf(snd[s].id)] EXCEPT
                      !.tag = get_type_id(m.type, 0),
                      !.len = get_payload_size(m.type),
                      !.data = ObjectBytes(m.type, m.value)])
  /\ snd' = [snd EXCEPT ![s].pc = "complete"]
  /\ UNCHANGED <<mbFixed, rcv, sent, commitLog, recvLog, sendFails, crashed,
                 offMailbox>>

\* send_message: xRingbufferSendComplete, `return stat == pdTRUE`.
send_message_complete(s) ==
  /\ ~crashed /\ snd[s].pc = "complete"
  /\ Complete(s)
  /\ UNCHANGED <<mbFixed, rcv, sent, recvLog, sendFails, crashed, offMailbox>>

\* Mailbox::acquire_send_handle: the reservation, the blob header, and the
\* SendHandle returned; nothing is returned when there is no room in time.
acquire_send_handle(s) ==
  /\ ~crashed /\ snd[s].pc = "idle"
  /\ \E payload_size \in BlobSizes :
       IF handle_ /\ Fits(HeaderSize + payload_size)
       THEN /\ Len(sent) < MaxSends
            /\ Reserve(s, HeaderSize + payload_size, kBlobTypeId, payload_size,
                       "handle",
                       [type |-> "blob", value |-> JunkBytes(payload_size)])
            /\ UNCHANGED sendFails
       ELSE /\ SendFails
            /\ UNCHANGED <<ring, snd, sent>>
  /\ UNCHANGED <<mbFixed, rcv, commitLog, recvLog, crashed, offMailbox>>

\* The holder of a SendHandle writes the payload span.
SendHandle_fill(s) ==
  /\ ~crashed /\ snd[s].pc = "handle"
  /\ LET it == ring[ItemOf(snd[s].id)]
     IN  /\ it.len > 0
         /\ ring' = SetItem(it.id, [it EXCEPT !.data = BlobBytes(it.len)])
         /\ sent' = [sent EXCEPT ![it.id].value = BlobBytes(it.len)]
  /\ snd' = [snd EXCEPT ![s].pc = "filled"]
  /\ UNCHANGED <<mbFixed, rcv, commitLog, recvLog, sendFails, crashed,
                 offMailbox>>

\* A SendHandle copied into the optional: the destructor of the temporary
\* and that of the copy both run xRingbufferSendComplete.
SendHandle_destroy_twice(s) ==
  /\ ~crashed /\ snd[s].pc \in {"handle", "filled"}
  /\ ring' = SetItem(snd[s].id, [ring[ItemOf(snd[s].id)] EXCEPT !.st = "written"])
  /\ commitLog' = Append(Append(commitLog, snd[s].id), snd[s].id)
  /\ snd' = [snd EXCEPT ![s] = [pc |-> "idle", id |-> 0]]
  /\ UNCHANGED <<mbFixed, rcv, sent, recvLog, sendFails, crashed, offMailbox>>

\* SendHandle::~SendHandle: xRingbufferSendComplete.
SendHandle_destroy(s) ==
  /\ ~crashed /\ snd[s].pc \in {"handle", "filled"}
  /\ Complete(s)
  /\ UNCHANGED <<mbFixed, rcv, sent, recvLog, sendFails, crashed, offMailbox>>

\* Mailbox::acquire_recv_handle: xRingbufferReceive is called on handle_
\* without a null test, which aborts the program on an inert mailbox; it
\* returns the next item, or nothing when the timeout expires. The
\* RecvHandle copies the header.
acquire_recv_handle ==
  /\ ~crashed /\ rcv.pc = "idle"
  /\ IF ~handle_
     THEN /\ crashed' = TRUE
          /\ UNCHANGED <<ring, rcv, recvLog>>
     ELSE /\ UNCHANGED crashed
          /\ IF Readable
             THEN LET it == Head(Unread)
                  IN  /\ ring' = SetItem(it.id, [it EXCEPT !.st = "received"])
                      /\ rcv' = [rcv EXCEPT !.pc = "holding", !.id = it.id,
                                            !.tag = it.tag, !.len = it.len]
                      /\ recvLog' = Append(recvLog,
                                      [id |-> it.id, tag |-> it.tag,
                                       len |-> it.len, data |-> it.data])
             ELSE UNCHANGED <<ring, rcv, recvLog>>
  /\ UNCHANGED <<mbFixed, snd, sent, commitLog, sendFails, offMailbox>>

\* RecvHandle::visit on the handle held: the payload span is read from the
\* ring buffer.
RecvHandle_visit ==
  /\ ~crashed /\ rcv.pc = "holding"
  /\ \E visitor \in Dispatchers :
       rcv' = [rcv EXCEPT !.pc = "visited", !.visitor = visitor,
                          !.visit = visit(visitor, rcv.tag,
                                          ring[ItemOf(rcv.id)].data)]
  /\ UNCHANGED <<mbFixed, ring, snd, sent, commitLog, recvLog, sendFails,
                 crashed, offMailbox>>

\* A RecvHandle destroyed without returning the item (a handle whose
\* raw_slice_ was reset).
RecvHandle_destroy_keeps_item ==
  /\ ~crashed /\ rcv.pc \in {"holding", "visited"}
  /\ rcv' = NoRecvHandle
  /\ UNCHANGED <<mbFixed, ring, snd, sent, commitLog, recvLog, sendFails,
                 crashed, offMailbox>>

\* RecvHandle::~RecvHandle: vRingbufferReturnItem.
RecvHandle_destroy ==
  /\ ~crashed /\ rcv.pc \in {"holding", "visited"}
  /\ ring' = DropReturned(
               SetItem(rcv.id, [ring[ItemOf(rcv.id)] EXCEPT !.st = "returned"]))
  /\ rcv' = NoRecvHandle
  /\ UNCHANGED <<mbFixed, snd, sent, commitLog, recvLog, sendFails, crashed,
                 offMailbox>>

SenderStep(s) ==
  \/ send_message(s)
  \/ send_message_write(s)
  \/ send_message_complete(s)
  \/ acquire_send_handle(s)
  \/ SendHandle_fill(s)
  \/ SendHandle_destroy(s)

ReceiverStep ==
  \/ acquire_recv_handle
  \/ RecvHandle_visit
  \/ RecvHandle_destroy

MailboxNext == ReceiverStep \/ \E s \in Senders : SenderStep(s)

\* The task object of a behaviour of the mailbox alone: never started.
TaskIdle == TaskInit /\ cls = "ActiveObject" /\ thread_period_ms_

MailboxInit == MbInit /\ nTypes = DemoTypes /\ TaskIdle /\ CompIdle

MailboxSpec == MailboxInit /\ [][MailboxNext]_vars

\* A sender that has reserved a region goes on to commit it, and the
\* consumer keeps receiving and lets go of what it received.
CommitStep(s) ==
  send_message_write(s) \/ send_message_complete(s) \/ SendHandle_destroy(s)

MailboxFairness ==
  /\ WF_vars(ReceiverStep)
  /\ \A s \in Senders : WF_vars(CommitStep(s))

MailboxFairSpec == MailboxSpec /\ MailboxFairness

\* Mailboxes over the two-type list of main.cc and over long type lists.
TagInit ==
  /\ MbInit /\ handle_
  /\ nTypes \in {DemoTypes, MaxTypes - 1, MaxTypes}
  /\ TaskIdle /\ CompIdle

TagSpec == TagInit /\ [][MailboxNext]_vars

(* ----------------------- the task lifecycle spec ----------------------- *)

OwnerStep ==
  \/ AO_start
  \/ AO_start_store
  \/ AO_join
  \/ AO_join_block
  \/ AO_join_timeout
  \/ AO_join_take
  \/ AO_dtor
  \/ Component_start
  \/ Component_start_store
  \/ Component_join
  \/ Component_join_take
  \/ Component_request_stop
  \/ Component_dtor
  \/ Subclass_dtor
  \/ Release

ThreadStep(t) == AO_task_wrapper(t) \/ Component_task_wrapper(t)

Init == TaskInit /\ MbIdle /\ CompIdle

Next == OwnerStep \/ \E t \in Tids : ThreadStep(t)

Spec == Init /\ [][Next]_vars

\* The kernel schedules every ready thread: each thread keeps taking steps,
\* and a join() whose semaphore has been given returns.
Fairness ==
  /\ \A t \in Tids : WF_vars(ThreadStep(t))
  /\ WF_vars(AO_join_take \/ Component_join_take)

FairSpec == Spec /\ Fairness

(* =================== the periodic loop and its clock =================== *)
(* The loop of both task_wrappers against the kernel's tick count: the     *)
(* reference taken by xTaskGetTickCount after initialize(), a work unit    *)
(* (with its pet, and whatever preempts the thread) of any length, and     *)
(* vTaskDelayUntil.  Tick counts stay far from the wrap of TickType_t.     *)

\* The longest period, in ticks.
MaxPeriod == 3

\* The longest time, in ticks, from a wake-up to the next vTaskDelayUntil.
MaxUnitTicks == 4

\* Iterations of the loop in a behaviour.
MaxWaits == 3

\* The latest tick at which initialize() returns.
MaxSetupTicks == 1

\* The state outside the clock.
offTimer == <<taskVars, mbVars, demo, wifi, sd>>

\* A wait that always lasts the period, counted from the call.
vTaskDelay_from_now(previous_wake_time, time_increment, now) ==
  [previous_wake_time |-> now + time_increment, wake |-> now + time_increment]

\* vTaskDelayUntil(&previous_wake_time, time_increment) called at tick now:
\* the reference advances by the increment whatever the time is, and the
\* caller sleeps until the new reference unless that tick has passed.
vTaskDelayUntil(previous_wake_time, time_increment, now) ==
  LET time_to_wake == previous_wake_time + time_increment IN
    [previous_wake_time |-> time_to_wake,
     wake |-> IF now < time_to_wake THEN time_to_wake ELSE now]

PeriodInit ==
  /\ TaskIdle /\ MbIdle /\ demo = DemoOff /\ wifi = WifiOff /\ sd = SdOff
  /\ \E p \in 1..MaxPeriod, n \in 0..MaxSetupTicks :
       timer = [TimerOff EXCEPT !.pc = "tick", !.P = p, !.now = n]

\* `TickType_t last_wake_time = xTaskGetTickCount()`.
Period_tick ==
  /\ timer.pc = "tick"
  /\ timer' = [timer EXCEPT !.pc = "task", !.last_wake_time = timer.now,
                            !.t0 = timer.now]
  /\ UNCHANGED offTimer

\* task() and esp_task_wdt_reset(): d ticks pass before the thread calls
\* vTaskDelayUntil.
Period_task ==
  /\ timer.pc = "task" /\ timer.k < MaxWaits
  /\ \E d \in 0..MaxUnitTicks :
       timer' = [timer EXCEPT !.pc = "delay", !.now = @ + d, !.fin = timer.now + d]
  /\ UNCHANGED offTimer

\* `vTaskDelayUntil(&last_wake_time, period)` and its return.
Period_delay ==
  /\ timer.pc = "delay"
  /\ LET r == vTaskDelayUntil(timer.last_wake_time, timer.P, timer.now) IN
       timer' = [timer EXCEPT !.pc = "task", !.k = @ + 1,
                              !.last_wake_time = r.previous_wake_time,
                              !.now = r.wake,
                              !.overran = @ \/ timer.now > r.previous_wake_time]
  /\ UNCHANGED offTimer

PeriodNext == Period_tick \/ Period_task \/ Period_delay

PeriodSpec == PeriodInit /\ [][PeriodNext]_vars

(* ====================== the demo pair of main.cc ======================= *)
(* app_main's two TestComponents: obj1, the receiver, owns the 1024-byte   *)
(* Mailbox<int, float>; obj2, the sender, holds a MailboxSender onto it.   *)
(* Each runs ActiveObject's task_wrapper with a period of 1000 ms; app_main *)
(* starts the storage task, obj2 and obj1, and joins them in that order.   *)
(* The mailbox has one sender here, so a send is one step: the record      *)
(* becomes readable when it is committed.                                  *)

\* `mailbox_{1024}`.
DemoCapacity == 1024

\* `if (counter_++ >= 5)`.
LastCount == 5

\* static_cast<float>(c / 5.0) as the float's bit pattern, c in 0..5.
FifthAsFloat(c) ==
  <<0, 1045220557, 1053609165, 1058642330, 1061997773, 1065353216>>[c + 1]

\* The state outside the demo.
offDemo == <<taskVars, mbVars, timer, wifi, sd>>

\* The two TestComponents: obj2 and obj1 of app_main.
DemoObjects == {"send", "recv"}

\* app_main's position after it started, or joined, object o.
AfterStart(o) == IF o = "send" THEN "start_recv" ELSE "join_sd"

AfterJoinOf(o) == IF o = "send" THEN "join_recv" ELSE "joined"

\* MailboxSender::send_message<M>(v) on the receiver's mailbox, as
\* Mailbox::send_message: the record is appended if the ring buffer has room
\* for it, and dropped otherwise (task() ignores the result).
DemoSend(d, M, v) ==
  LET total_size == HeaderSize + get_payload_size(M) IN
    IF (Len(d.box) + 1) * Footprint(total_size) <= DemoCapacity
    THEN [d EXCEPT !.box = Append(@, [type_id |-> get_type_id(M, 0),
                                     payload |-> ObjectBytes(M, v)]),
                   !.sentLog = Append(@, [type |-> M, value |-> v])]
    ELSE d

DemoInit ==
  /\ TaskIdle /\ MbIdle /\ timer = TimerOff /\ wifi = WifiOff /\ sd = SdOff
  /\ demo = [DemoOff EXCEPT !.main = "start_sd"]

\* components[0]->start(): the storage task.
Demo_start_storage ==
  /\ demo.main = "start_sd"
  /\ \E status \in BOOLEAN :
       demo' = [demo EXCEPT !.main = IF status THEN "start_send" ELSE "aborted"]
  /\ UNCHANGED offDemo

\* component->start() on a TestComponent, and `assert(false)` if it fails.
Demo_start(o) ==
  /\ demo.main = (IF o = "send" THEN "start_send" ELSE "start_recv")
  /\ \E created \in BOOLEAN :
       demo' = IF created
               THEN [demo EXCEPT ![o].pc = "init", ![o].task_handle_ = TRUE,
                                 ![o].sem = 0, !.main = AfterStart(o)]
               ELSE [demo EXCEPT !.main = "aborted"]
  /\ UNCHANGED offDemo

\* components[0]->join() returns.
Demo_join_storage ==
  /\ demo.main = "join_sd"
  /\ demo' = [demo EXCEPT !.main = "join_send"]
  /\ UNCHANGED offDemo

\* component->join() on a TestComponent: the take succeeds once the thread
\* has given the semaphore, and the guards are cleared.
Demo_join(o) ==
  /\ demo.main = (IF o = "send" THEN "join_send" ELSE "join_recv")
  /\ demo[o].task_handle_ /\ demo[o].sem = 1
  /\ demo' = [demo EXCEPT ![o].sem = 0, ![o].task_handle_ = FALSE,
                          ![o].joined = TRUE, !.main = AfterJoinOf(o)]
  /\ UNCHANGED offDemo

DemoMain ==
  \/ Demo_start_storage
  \/ Demo_join_storage
  \/ \E o \in DemoObjects : Demo_start(o) \/ Demo_join(o)

\* task_wrapper around task(): subscription, initialize() and the pet; the
\* test of done_; the pet and the wait after the unit; the give and the end.
Demo_wrapper(o) ==
  \/ /\ demo[o].pc = "init"
     /\ demo' = [demo EXCEPT ![o].pc = "test"]
  \/ /\ demo[o].pc = "test"
     /\ demo' = [demo EXCEPT ![o].pc = IF demo[o].done_ THEN "give" ELSE "task"]
  \/ /\ demo[o].pc = "pet"
     /\ demo' = [demo EXCEPT ![o].pc = "delay"]
  \/ /\ demo[o].pc = "delay"
     /\ demo' = [demo EXCEPT ![o].pc = "test"]
  \/ /\ demo[o].pc = "give"
     /\ demo' = [demo EXCEPT ![o].pc = "dead", ![o].sem = 1]

\* A sender that tests `++counter_ >= 5`.
Demo_count_early ==
  /\ demo.send.pc = "count"
  /\ demo' = [demo EXCEPT
                !.counter_ = @ + 1,
                !.send.pc = IF demo.counter_ + 1 >= LastCount
                            THEN "send_int" ELSE "pet"]
  /\ UNCHANGED offDemo

\* `if (counter_++ >= 5)`.
Demo_count ==
  /\ demo.send.pc = "count"
  /\ demo' = [demo EXCEPT
                !.counter_ = @ + 1,
                !.send.pc = IF demo.counter_ >= LastCount
                            THEN "send_int" ELSE "pet"]
  /\ UNCHANGED offDemo

\* TestComponent::task with a sender_.
Demo_task_send ==
  \/ /\ demo.send.pc = "task"
     /\ demo' = [DemoSend(demo, "float", FifthAsFloat(demo.counter_))
                   EXCEPT !.send.pc = "count"]
     /\ UNCHANGED offDemo
  \/ Demo_count
  \/ /\ demo.send.pc = "send_int"
     /\ demo' = [DemoSend(demo, "int", -1) EXCEPT !.send.pc = "mark"]
     /\ UNCHANGED offDemo
  \/ /\ demo.send.pc = "mark"
     /\ demo' = [demo EXCEPT !.send.pc = "pet", !.send.done_ = TRUE]
     /\ UNCHANGED offDemo

\* TestComponent::task without a sender_: acquire_recv_handle() with its
\* default timeout blocks until a record is there; the visitor marks the
\* task done on a negative int; the handle returns the record when task()
\* ends.
Demo_task_recv ==
  \/ /\ demo.recv.pc = "task"
     /\ demo.box # <<>> /\ ~demo.held
     /\ demo' = [demo EXCEPT !.recv.pc = "visit", !.held = TRUE]
  \/ /\ demo.recv.pc = "visit"
     /\ LET m == Head(demo.box)
            r == visit(AllHandlers, m.type_id, m.payload)
        IN  demo' = [demo EXCEPT
                       !.recv.pc = "drop",
                       !.got = Append(@, r),
                       !.recv.done_ = @ \/ (r.handler = "int" /\ r.value < 0)]
  \/ /\ demo.recv.pc = "drop"
     /\ demo' = [demo EXCEPT !.recv.pc = "pet", !.held = FALSE,
                             !.box = Tail(@)]

DemoThread(o) ==
  \/ Demo_wrapper(o) /\ UNCHANGED offDemo
  \/ o = "send" /\ Demo_task_send
  \/ o = "recv" /\ Demo_task_recv /\ UNCHANGED offDemo

DemoNext == DemoMain \/ \E o \in DemoObjects : DemoThread(o)

DemoSpec == DemoInit /\ [][DemoNext]_vars

\* The kernel schedules app_main and both task threads.
DemoFairness ==
  /\ WF_vars(DemoMain)
  /\ \A o \in DemoObjects : WF_vars(DemoThread(o))

DemoFairSpec == DemoSpec /\ DemoFairness

(* ============================ the WifiObject =========================== *)
(* WifiObject::task under ActiveObject's loop, its Mailbox<Command> as the *)
(* queue of committed records (one declared type, tag 0; blobs, tag 255),  *)
(* and the access point that spin_up and spin_down start and stop.         *)

\* Records posted to the WifiObject's mailbox in a behaviour.
MaxPosts == 3

\* enum class Command : uint8_t { kSpinUp, kSpinDown }.
kSpinUp == 0

kSpinDown == 1

\* The records other tasks send: the two commands, and a blob.
WifiRecords ==
  {[type_id |-> 0, payload |-> <<kSpinUp>>],
   [type_id |-> 0, payload |-> <<kSpinDown>>],
   [type_id |-> kBlobTypeId, payload |-> <<171, 172>>]}

\* The state outside the WifiObject.
offWifi == <<taskVars, mbVars, timer, demo, sd>>

WifiInit ==
  /\ TaskIdle /\ MbIdle /\ timer = TimerOff /\ demo = DemoOff /\ sd = SdOff
  /\ wifi = [WifiOff EXCEPT !.pc = "idle"]

\* Another task commits a record to the mailbox.
Wifi_post ==
  /\ wifi.pc # "off" /\ wifi.posts < MaxPosts
  /\ \E m \in WifiRecords :
       wifi' = [wifi EXCEPT !.box = Append(@, m), !.posts = @ + 1]
  /\ UNCHANGED offWifi

\* WifiObject::spin_up on the object w: the access point and the HTTP server
\* are started, and state_ becomes kUp.
spin_up(w) ==
  [w EXCEPT !.ap = "up", !.handle_ = TRUE, !.state_ = "kUp",
            !.ops = Append(@, "spin_up")]

\* WifiObject::spin_down on the object w: the HTTP server and the access
\* point are stopped; no field of the object is written.
spin_down(w) == [w EXCEPT !.ap = "down", !.ops = Append(@, "spin_down")]

\* A command handler without the tests of state_.
on_command_unguarded(w, cmd) ==
  IF cmd = kSpinUp THEN spin_up(w)
  ELSE IF cmd = kSpinDown THEN spin_down(w)
  ELSE w

\* The visitor's Command handler: the switch of WifiObject::task.
on_command(w, cmd) ==
  IF cmd = kSpinUp
  THEN IF w.state_ = "kUp" THEN w ELSE spin_up(w)
  ELSE IF cmd = kSpinDown
       THEN IF w.state_ = "kDown" THEN w ELSE spin_down(w)
       ELSE w

\* RecvHandle::visit for Mailbox<Command> with the visitor of task(): the
\* blob handler does nothing, tag 0 is read as a Command.
wifi_visit(w, m) ==
  IF m.type_id = kBlobTypeId THEN w
  ELSE IF m.type_id = 0 THEN on_command(w, m.payload[1])
  ELSE w

\* The wrapper's loop calls task().
Wifi_call ==
  /\ wifi.pc = "idle"
  /\ wifi' = [wifi EXCEPT !.pc = "task",
                          !.units = IF @ <= MaxPosts THEN @ + 1 ELSE @]
  /\ UNCHANGED offWifi

\* `mailbox_->acquire_recv_handle(pdMS_TO_TICKS(0))`: with nothing to
\* receive it returns empty at once and task() returns.
Wifi_poll ==
  /\ wifi.pc = "task"
  /\ wifi' = IF wifi.box = <<>>
             THEN [wifi EXCEPT !.pc = "idle"]
             ELSE [wifi EXCEPT !.pc = "visit", !.taken = @ + 1]
  /\ UNCHANGED offWifi

\* `msg->visit(...)`, then the handle returns the record and task() returns.
Wifi_visit ==
  /\ wifi.pc = "visit"
  /\ wifi' = [wifi_visit(wifi, Head(wifi.box)) EXCEPT
                !.pc = "idle", !.box = Tail(@), !.last = Head(wifi.box)]
  /\ UNCHANGED offWifi

WifiNext == Wifi_post \/ Wifi_call \/ Wifi_poll \/ Wifi_visit

WifiSpec == WifiInit /\ [][WifiNext]_vars

(* ================== SDCard::get_ordered_mp3_files ====================== *)
(* The card holds /sdcard/config/playback_order.txt, whose lines are file  *)
(* names, and some files under /sdcard/music.  A path is kept as its       *)
(* directory and its name; a name stands for its characters and length.    *)

\* static constexpr std::size_t kMaxPathLength.
kMaxPathLength == 128

\* strlen(mount_point_.data()) for "/sdcard".
MountPointLen == 7

\* Lines of the order file that follow its filler lines.
MaxTail == 3

\* The lines an order file is made of: an empty line, three file names, and
\* a name too long for a path.
Names == {"", "a.mp3", "b.mp3", "c.mp3", "long.mp3"}

\* The files under /sdcard/music.
OnCard == {"a.mp3", "c.mp3"}

strlen(name) ==
  CASE name = "" -> 0
    [] name = "long.mp3" -> kMaxPathLength - MountPointLen - 8
    [] OTHER -> 5

\* strcpy(dest, mount_point_); strcat(dest, "/music/"); strcat(dest, line).
MusicPath(line) == [dir |-> "/sdcard/music", name |-> line]

\* The order files: none or kMaxFiles - 1 lines naming a file on the card,
\* then up to MaxTail lines of any kind.
OrderFiles ==
  {[j \in 1..fill |-> "a.mp3"] \o tail :
     fill \in {0, kMaxFiles - 1},
     tail \in UNION {[1..n -> Names] : n \in 0..MaxTail}}

\* The state outside the SDCard.
offSd == <<taskVars, mbVars, timer, demo, wifi>>

SdInit ==
  /\ TaskIdle /\ MbIdle /\ timer = TimerOff /\ demo = DemoOff /\ wifi = WifiOff
  /\ \E f \in OrderFiles :
       sd = [SdOff EXCEPT !.pc = "open", !.lines = f, !.card = OnCard]

\* The order path is built and fopen succeeds.
Sd_open ==
  /\ sd.pc = "open"
  /\ sd' = [sd EXCEPT !.pc = IF MountPointLen + 26 >= kMaxPathLength
                             THEN "done" ELSE "read"]
  /\ UNCHANGED offSd

\* `while (fgets(line, sizeof(line), f) && file_count < kMaxFiles)`, with
\* the newline removed; at the end `fclose(f); return files`.
Sd_fgets ==
  /\ sd.pc = "read"
  /\ sd' = IF sd.read < Len(sd.lines) /\ sd.file_count < kMaxFiles
           THEN [sd EXCEPT !.pc = "line", !.read = @ + 1,
                           !.line = sd.lines[sd.read + 1]]
           ELSE [sd EXCEPT !.pc = "done"]
  /\ UNCHANGED offSd

\* The loop body: empty and over-long lines are skipped; the path is
\* written into files[file_count], and file_count advances if access()
\* finds the file.
Sd_line ==
  /\ sd.pc = "line"
  /\ sd' = IF strlen(sd.line) = 0
              \/ (MountPointLen + 7) + 1 + strlen(sd.line) >= kMaxPathLength
           THEN [sd EXCEPT !.pc = "read"]
           ELSE [sd EXCEPT !.pc = "read",
                           !.files[sd.file_count + 1] = MusicPath(sd.line),
                           !.file_count = IF sd.line \in sd.card
                                          THEN @ + 1 ELSE @]
  /\ UNCHANGED offSd

SdNext == Sd_open \/ Sd_fgets \/ Sd_line

SdSpec == SdInit /\ [][SdNext]_vars

(* ======================= claims: task lifecycle ======================== *)

JoinTrue == [op |-> "join", ret |-> TRUE]

JoinFalse == [op |-> "join", ret |-> FALSE]

StartFalse == [op |-> "start", ret |-> FALSE]

\* The step is a join() call: it returns, or it enters the wait.
JoinStep ==
  /\ opc \in JoinAt
  /\ \/ opc' = "join_wait"
     \/ opTick' # opTick /\ lastOp'.op = "join"

\* The step is a start() call that returns false.
FailedStartStep == opc = "idle" /\ opTick' # opTick /\ lastOp' = StartFalse

\* What a join() called now would do: wait on the semaphore, or return false.
JoinWouldWait ==
  IF IsAO
  THEN join_sem_handle_ /\ task_handle_ # NoHandle
  ELSE task_handle_ # NoHandle /\ ~detached_ /\ join_sem_handle_

\* C1 (ActiveObject): after a start() that created the thread, the first
\* join() that returns returns true, every later join() returns false, and
\* no later join() waits on the join semaphore.
C1_IdempotentJoin ==
  IsAO =>
    /\ (lastOp.op = "join" /\ joins = 1 /\ phase # "fresh") => lastOp.ret
    /\ (lastOp.op = "join" /\ joins = 2) => ~lastOp.ret
    /\ opc = "join_wait" => joins = 0

C1_Witness ==
  /\ IsAO /\ phase = "joined" /\ joins = 2 /\ lastOp = JoinFalse
  /\ opc = "idle"

\* C2: a start() creates a thread only if no earlier thread of the object is
\* still unjoined, and at most one thread created by the object is alive.
C2_StartGuard ==
  /\ [](Cardinality({t \in Tids : Alive(t)}) <= 1)
  /\ [][nStarts' # nStarts => phase # "started"]_vars

\* C3: no thread of a joinable task runs a work unit, or reads or writes the
\* task's state, after that state has been released.
C3_NoUseAfterRelease == (IsAO \/ ~detached_) => ~uaf

\* C4: once join() has returned true (and until the next thread is created)
\* every thread of the object has left its loop and given the semaphore.
C4_JoinAfterLoop ==
  phase = "joined" => \A t \in Tids : thr[t].pc \in AfterGive

C4_Witness ==
  /\ phase = "joined" /\ lastOp = JoinTrue
  /\ \E t \in Tids : thr[t].pc \in {"wdt_delete", "clear"}

\* C5: a join() on a task that never created a thread, or on a detached
\* Component, returns false at once: it does not wait and changes nothing.
C5_JoinNotStarted ==
  [][(JoinStep /\ (phase = "fresh" \/ (IsComp /\ detached_)))
       => /\ opc' # "join_wait"
          /\ lastOp' = JoinFalse
          /\ UNCHANGED <<objVars, thr, nStarts>>]_vars

C5_Witness ==
  /\ IsComp /\ detached_ /\ lastOp = JoinFalse /\ opc = "idle"
  /\ task_handle_ # NoHandle
  /\ \E t \in Tids : thr[t].pc = "task"

\* C6: a start() that returns false leaves the handle, the flags and the
\* threads as they were; it changes at most the join semaphore, and then only
\* in a state where the handle is absent and no thread will still give it, so
\* that a later join() does what it would have done and a later start()
\* re-creates the semaphore anyway.
C6_FailedStart ==
  [][FailedStartStep
       => /\ UNCHANGED <<task_handle_, done_, should_terminate_, thr, nStarts>>
          /\ JoinWouldWait' = JoinWouldWait
          /\ (join_sem_handle_' # join_sem_handle_ \/ sem' # sem)
               => /\ task_handle_ = NoHandle
                  /\ \A t \in Tids : thr[t].pc \in AfterGive]_vars

C6_Witness ==
  /\ lastOp = StartFalse /\ opc = "idle"
  /\ task_handle_ = NoHandle /\ join_sem_handle_ /\ phase = "joined"

\* C7: while the object lives, a thread begins at most one work unit and at
\* most one periodic wait after the stop flag was set, and it then leaves the
\* loop and gives the join semaphore.
C7_StopLatency ==
  /\ [](~released =>
          \A t \in Tids : thr[t].lateUnits <= 1 /\ thr[t].lateWaits <= 1)
  /\ \A t \in Tids :
       (StopFlag /\ Alive(t) /\ ~released)
          ~> (thr[t].pc \in AfterGive \/ released)

C7_Witness ==
  /\ ~released
  /\ \E t \in Tids :
       thr[t].lateUnits = 1 /\ thr[t].lateWaits = 1 /\ thr[t].pc \in AfterGive

(* ------------------------- claims: the mailbox ------------------------- *)

\* What a visitor is handed for a record as sent.
Delivered(m) == [handler |-> m.type, value |-> m.value]

Committed(id) == \E k \in DOMAIN commitLog : commitLog[k] = id

\* The sends were committed in the order they were reserved.
CommitsInOrder ==
  \A j, k \in DOMAIN commitLog : j < k => commitLog[j] < commitLog[k]

FailedSendStep == sendFails' # sendFails

\* C10: a send that finds no room in time returns failure and leaves the
\* channel as it was; the records received are exactly the records of the
\* sends that succeeded, unchanged and in order, and every record sent is
\* either received or still in the channel.
C10_Backpressure ==
  /\ [][FailedSendStep =>
          UNCHANGED <<handle_, ring, snd, rcv, sent, commitLog, recvLog>>]_vars
  /\ [](/\ Len(recvLog) + Len(Unread) = Len(sent)
        /\ \A i \in DOMAIN recvLog :
             /\ recvLog[i].id = i
             /\ visit(AllHandlers, recvLog[i].tag, recvLog[i].data)
                  = Delivered(sent[i]))

\* A mailbox that holds two records refused a third send; the two records
\* were then received and nothing else is in the channel.
C10_Witness ==
  /\ handle_ /\ sendFails = 1
  /\ Len(sent) = 2 /\ Len(recvLog) = 2
  /\ ring = <<>> /\ rcv.pc = "idle"

\* The senders between the reservation of region id and its commit.
Holders(id) == {s \in Senders : snd[s].id = id}

\* How often xRingbufferSendComplete ran on region id.
CommitCount(id) == Cardinality({k \in DOMAIN commitLog : commitLog[k] = id})

\* C11: every region reserved is committed exactly once: not at all while
\* the send_message call or the SendHandle that reserved it is still under
\* way, in which case that one holder can go on to the commit, and exactly
\* once from then on.
C11_CommitOnce ==
  \A id \in 1..Len(sent) :
    /\ Cardinality(Holders(id)) <= 1
    /\ CommitCount(id) = IF Holders(id) = {} THEN 1 ELSE 0
    /\ \A s \in Holders(id) :
         /\ snd[s].pc \in {"write", "complete", "handle", "filled"}
         /\ ENABLED SenderStep(s)

\* A blob sent through a SendHandle and an int sent with send_message, both
\* committed, and a third region held by a SendHandle.
C11_Witness ==
  /\ Len(sent) = 3 /\ Len(commitLog) = 2
  /\ sent[1].type = "blob" /\ sent[2].type = "int"
  /\ \E s \in Senders : snd[s] = [pc |-> "filled", id |-> 3]

\* C12: on a mailbox whose ring buffer was not created every operation fails
\* safely: the program is not aborted, nothing is reserved, committed or
\* received, and no handle is handed out.
C12_InertMailbox ==
  ~handle_ =>
    /\ ~crashed
    /\ ring = <<>> /\ sent = <<>> /\ commitLog = <<>> /\ recvLog = <<>>
    /\ rcv = NoRecvHandle
    /\ \A s \in Senders : snd[s].pc = "idle"

\* The tags of the records a receiver can get.
CommittedTags == {ring[i].tag : i \in {j \in DOMAIN ring : ring[j].st # "acquired"}}

\* C13: a visit fires exactly one handler of the visitor: the blob handler
\* for tag 255, otherwise no blob handler but the handler of the declared
\* type at the position the tag gives, if the visitor has one; and the
\* committed records carry no tag but 255 and the positions of the declared
\* types.
C13_OneHandler ==
  /\ CommittedTags \subseteq (0..(nTypes - 1)) \cup {kBlobTypeId}
  /\ rcv.pc = "visited" =>
       /\ rcv.visit.handler \in rcv.visitor
       /\ rcv.tag = kBlobTypeId => rcv.visit.handler = "blob"
       /\ rcv.tag # kBlobTypeId =>
            /\ rcv.visit.handler # "blob"
            /\ MessageTypes[rcv.tag + 1] \in rcv.visitor =>
                 rcv.visit.handler = MessageTypes[rcv.tag + 1]

\* A blob record visited: the blob handler got the bytes written.
C13_Witness ==
  /\ rcv.pc = "visited" /\ rcv.tag = kBlobTypeId
  /\ rcv.visit = [handler |-> "blob", value |-> BlobBytes(2)]
  /\ \E i \in DOMAIN recvLog : recvLog[i].tag = 1

\* C14: a visit with a visitor that has no handler for the type of the
\* record fires no handler at all, and the records are still received one
\* after the other in order.
C14_TypeIsolation ==
  /\ (rcv.pc = "visited" /\ sent[rcv.id].type \notin rcv.visitor) =>
       rcv.visit.handler = "none"
  /\ \A i \in DOMAIN recvLog : recvLog[i].id = i

\* C15: a region reserved and not yet committed is not handed to a
\* receiver, and its bytes stay set aside: whatever is received was committed
\* before, the regions in the buffer that are not committed are exactly those
\* held by a sender, and all regions in the buffer together, the uncommitted
\* ones included, fit its capacity.
C15_OpenReservation ==
  /\ \A i \in DOMAIN recvLog : Committed(recvLog[i].id)
  /\ rcv.id # 0 => Committed(rcv.id)
  /\ \A i \in DOMAIN ring :
       (ring[i].st = "acquired") <=> (Holders(ring[i].id) # {})
  /\ Used(ring) <= MailboxCapacity

\* The oldest region is reserved and not committed, the next is committed:
\* nothing was received, and a further send found no room.
C15_Witness ==
  /\ Len(ring) = 2 /\ ring[1].st = "acquired" /\ ring[2].st = "written"
  /\ recvLog = <<>> /\ rcv.pc = "idle" /\ sendFails = 1

\* The channel has no room for even an empty record.
Full == handle_ /\ ~Fits(HeaderSize)

\* C16: the record a RecvHandle holds stays in the buffer, with the bytes
\* it was received with, until the handle is destroyed; it is the only
\* record received and not returned; a record returned is gone from the
\* buffer, its space free again; and with a consumer that keeps receiving
\* a full channel does not stay full.
C16_ReturnOnce ==
  /\ [](/\ \A i \in DOMAIN ring :
             /\ ring[i].st # "returned"
             /\ ring[i].st = "received" <=>
                  (rcv.pc # "idle" /\ rcv.id = ring[i].id)
        /\ rcv.pc # "idle" =>
             /\ rcv.id = recvLog[Len(recvLog)].id
             /\ \E i \in DOMAIN ring :
                  /\ ring[i].id = rcv.id
                  /\ ring[i].data = recvLog[Len(recvLog)].data
                  /\ ring[i].tag = recvLog[Len(recvLog)].tag
        /\ \A k \in DOMAIN recvLog :
             recvLog[k].id # rcv.id =>
               \A i \in DOMAIN ring : ring[i].id # recvLog[k].id)
  /\ Full ~> ~Full

\* Two records filled the channel, both were received, visited and returned,
\* and a third found room.
C16_Witness ==
  /\ Len(recvLog) = 2 /\ rcv.pc = "idle" /\ sendFails = 1
  /\ Len(ring) = 1 /\ ring[1].id = 3

\* The place of M in the list of declared types, counted from one.
Position(M) == CHOOSE i \in 1..nTypes : MessageTypes[i] = M

\* C17: a committed record of a declared type carries as tag the zero-based
\* position of its type, which is not 255 and not the tag of a declared type
\* at another position, a blob record carries 255, and a typed record is
\* handed to the handler of its type.
C17_WireTags ==
  /\ \A i \in DOMAIN ring :
       ring[i].st # "acquired" =>
         LET M == sent[ring[i].id].type
         IN  IF M = "blob"
             THEN ring[i].tag = kBlobTypeId
             ELSE /\ ring[i].tag = Position(M) - 1
                  /\ ring[i].tag # kBlobTypeId
                  /\ \A j \in 1..nTypes :
                       j # Position(M) => as_uint8(j - 1) # ring[i].tag
  /\ (rcv.pc = "visited" /\ sent[rcv.id].type \in rcv.visitor) =>
       rcv.visit.handler = sent[rcv.id].type

(* ------------------ claims: the task lifecycle, again ------------------ *)

\* C18: while an ActiveObject lives and its owner is not inside start() or
\* join(), task_handle_ is present exactly when a thread created by the
\* object is alive.
C18_HandleIffAlive ==
  (IsAO /\ ~released /\ ~subReleased /\ opc = "idle") =>
     ((task_handle_ # NoHandle) <=> (\E t \in Tids : Alive(t)))

\* C19: the stop flag (done_, should_terminate_) is never cleared once set.
C19_StopFlagSticks ==
  [][(done_ => done_') /\ (should_terminate_ => should_terminate_')]_vars

\* The flag was set, the thread joined, and a second start() went through
\* with the flag still set.
C19_Witness ==
  /\ StopFlag /\ nStarts = 2 /\ lastOp = [op |-> "start", ret |-> TRUE]
  /\ thr[1].pc = "dead"

\* C20: in ActiveObject every write of task_handle_ happens in a step in
\* which the owner's start() or join() returns, and no step of a task thread
\* writes it.
C20_OwnerWritesHandle ==
  [][(IsAO /\ task_handle_' # task_handle_) =>
       /\ thr' = thr
       /\ opTick' # opTick
       /\ lastOp'.op \in {"start", "join"}]_vars

\* The handle was stored by start() and cleared by join(); the thread ran to
\* its end in between.
C20_Witness ==
  /\ IsAO /\ lastOp = JoinTrue /\ task_handle_ = NoHandle
  /\ \E t \in Tids : thr[t].pc = "dead"

(* ------------------ claims: the watchdog and the clock ----------------- *)

\* Positions of task_wrapper before the call of esp_task_wdt_add returns.
BeforeAdd == {"none", "settle", "wdt_add"}

\* Positions at which the pet that follows initialize() or a work unit has
\* been made and the next unit has not been entered.
Petted == {"tick", "test", "call", "delay"}

\* C21: every task thread subscribes to the watchdog once, before it calls
\* initialize(), a work unit or a pet; runs initialize() once, before the
\* first work unit; pets once after initialize() and once after every work
\* unit, before it waits for the next period; unsubscribes once before it is
\* deleted; and never pets while it is not subscribed.
C21_WatchdogProtocol ==
  \A t \in Tids :
    LET r == thr[t] IN
      /\ r.pc \in BeforeAdd => r.adds = 0 /\ r.inits = 0 /\ r.pets = 0
      /\ r.pc \notin BeforeAdd => r.adds = 1
      /\ r.pc \notin BeforeAdd \union {"init"} => r.inits = 1
      /\ r.pc \in {"init", "wdt_reset"} => r.pets = 0
      /\ r.pc \in Petted => r.pets = 1
      /\ r.pc \in {"task", "pet"} => r.pets = 0
      /\ r.dels <= 1
      /\ r.pc \in {"vdelete", "dead"} => r.dels = 1 /\ r.wdt = "off"
      /\ ~r.stray

\* The tick at which the wait that ended last was due to end.
Due == timer.t0 + timer.k * timer.P

\* C22: with a period of P ticks and the reference t0 taken after
\* initialize(), the wait after the k-th work unit ends at tick t0 + k*P if
\* the unit finished by then, and does not wait otherwise; the reference is
\* t0 + k*P in either case, so an overrun is never carried forward.
C22_DriftFree ==
  (timer.pc = "task" /\ timer.k >= 1) =>
     /\ timer.last_wake_time = Due
     /\ timer.fin <= Due => timer.now = Due
     /\ timer.fin > Due => timer.now = timer.fin

\* An earlier unit overran its period and the wait that ended now ended on
\* schedule again.
C22_Witness ==
  /\ timer.pc = "task" /\ timer.k >= 2 /\ timer.overran
  /\ timer.fin < Due /\ timer.now = Due

(* -------------------- claims: the exit of the thread ------------------- *)

\* C23 (Component): however the exiting thread's give and clear interleave
\* with the owner, a join() that follows a join() that returned true returns
\* false without waiting on the semaphore, and every join() returns once a
\* stop has been requested.
C23_ComponentJoinOnce ==
  /\ [](IsComp =>
         /\ (lastOp.op = "join" /\ joins = 2) => ~lastOp.ret
         /\ opc = "join_wait" => joins = 0)
  /\ (IsComp /\ opc = "join_wait" /\ should_terminate_ /\ ~released)
        ~> (opc # "join_wait")

\* Thread t takes a step from a position after its give.
StepAfterGive(t) ==
  thr[t].pc \in AfterGive \ {"none"} /\ thr'[t].pc # thr[t].pc

\* C24: after its give the exiting thread writes nothing of the object but
\* the one clear of task_handle_, and no join() has returned true while a
\* thread still has that clear ahead of it.
C24_ExitHandshake ==
  /\ [](phase = "joined" => \A t \in Tids : thr[t].pc # "clear")
  /\ [][\A t \in Tids :
          StepAfterGive(t) =>
            /\ UNCHANGED <<join_sem_handle_, sem, done_, should_terminate_>>
            /\ task_handle_' # task_handle_ =>
                  thr[t].pc = "clear" /\ task_handle_' = NoHandle]_vars

\* A step of the caller inside ActiveObject::join's wait.
WaitStep == IsAO /\ opc = "join_wait" /\ (opc' # opc \/ blocked' # blocked)

\* C25 (ActiveObject): a caller waiting in join() is never blocked in one
\* take, nor left without a reset of its watchdog, for more than kJoinWaitMs;
\* a take that times out is followed by the reset and a new take; and once
\* the semaphore has been given the next step of the wait returns true, which
\* it eventually does.
C25_WatchdogSafeJoin ==
  /\ []((IsAO /\ opc = "join_wait") =>
          blocked.take <= kJoinWaitMs /\ blocked.unfed <= kJoinWaitMs)
  /\ [][(WaitStep /\ sem = 0 /\ blocked.take = kJoinWaitMs) =>
          /\ opc' = "join_wait" /\ opTick' = opTick
          /\ blocked'.take = 0 /\ blocked'.unfed = 0]_vars
  /\ [][(WaitStep /\ sem = 1) => opTick' # opTick /\ lastOp' = JoinTrue]_vars
  /\ (IsAO /\ opc = "join_wait" /\ sem = 1) ~> (opc # "join_wait")

\* join() returned true after at least one take had timed out.
C25_Witness ==
  /\ IsAO /\ lastOp = JoinTrue /\ opc = "idle" /\ blocked.retries >= 1
  /\ task_handle_ = NoHandle

(* ------------------------- claims: the restart ------------------------ *)

\* Positions inside the loop of task_wrapper, past its test.
InLoop == {"call", "task", "pet", "delay"}

\* C26 (ActiveObject): a thread is created again only after join() has
\* returned true, with done_ still set and over an empty semaphore; that
\* start() returns true; the thread runs initialize() once and no work unit;
\* and a join() that waits for it returns true.
C26_RestartExitsAtOnce ==
  /\ [](IsAO =>
         \A t \in Tids \ {1} : thr[t].pc \notin InLoop /\ thr[t].inits <= 1)
  /\ [][(IsAO /\ nStarts >= 1 /\ nStarts' # nStarts) =>
          /\ phase = "joined" /\ done_ /\ done_'
          /\ join_sem_handle_' /\ sem' = 0]_vars
  /\ [][(IsAO /\ opc = "start_store" /\ opc' # opc) =>
          lastOp' = [op |-> "start", ret |-> TRUE]]_vars
  /\ (IsAO /\ nStarts >= 2 /\ opc = "join_wait") ~> (lastOp = JoinTrue)

\* The second thread has run initialize(), has given the semaphore without a
\* work unit, and the join() after the restart has returned true.
C26_Witness ==
  /\ IsAO /\ nStarts = 2 /\ lastOp = JoinTrue /\ joins = 1 /\ opc = "idle"
  /\ thr[2].inits = 1 /\ thr[2].lateUnits = 0 /\ thr[2].pc = "dead"

(* ------------------------ claims: the demo pair ------------------------ *)

\* What the sender sends: 0/5 .. 5/5 as floats, then the int -1.
DemoMessages ==
  [c \in 1..(LastCount + 1) |-> [type |-> "float", value |-> FifthAsFloat(c - 1)]]
    \o <<[type |-> "int", value |-> -1]>>

IsPrefix(a, b) == Len(a) <= Len(b) /\ a = SubSeq(b, 1, Len(a))

Redundant ==
  /\ wifi.pc = "visit"
  /\ LET m == Head(wifi.box) IN
       \/ m.type_id = kBlobTypeId
       \/ m.type_id = 0 /\ m.payload[1] = kSpinUp /\ wifi.state_ = "kUp"
       \/ m.type_id = 0 /\ m.payload[1] = kSpinDown /\ wifi.state_ = "kDown"

\* C28: task() receives at most one record per call and returns at once when
\* the mailbox is empty; a kSpinUp in state kUp, a kSpinDown in state kDown
\* and a blob run no access-point operation and leave the state as it was.
C28_WifiTaskFrame ==
  /\ [](wifi.taken <= wifi.units)
  /\ [][(wifi.pc = "task" /\ wifi.box = <<>> /\ wifi'.pc # wifi.pc) =>
          /\ wifi'.pc = "idle"
          /\ wifi' = [wifi EXCEPT !.pc = "idle"]]_vars
  /\ [][Len(wifi'.box) >= Len(wifi.box) - 1]_vars
  /\ [][(Redundant /\ wifi'.pc # wifi.pc) =>
          /\ wifi'.ops = wifi.ops /\ wifi'.state_ = wifi.state_
          /\ wifi'.ap = wifi.ap /\ wifi'.handle_ = wifi.handle_]_vars

\* A second kSpinUp has been consumed with the access point up, and only
\* the first ran spin_up.
C28_Witness ==
  /\ wifi.pc = "idle" /\ wifi.state_ = "kUp" /\ wifi.ops = <<"spin_up">>
  /\ wifi.taken = 2 /\ wifi.last = [type_id |-> 0, payload |-> <<kSpinUp>>]

\* C29: state_ is kUp exactly when the access point is running, so that
\* spin_up and spin_down alternate in the operations executed.
C29_StateTracksAp ==
  /\ wifi.pc # "visit" => (wifi.state_ = "kUp" <=> wifi.ap = "up")
  /\ \A i \in 1..(Len(wifi.ops) - 1) : wifi.ops[i] # wifi.ops[i + 1]

(* -------------------------- claims: the SDCard ------------------------- *)

\* The positions of the result that hold a path.
Filled == {j \in 1..kMaxFiles : sd.files[j] # EmptyEntry}

\* The lines of the order file that name a file on the card, in order.
Playable == SelectSeq(sd.lines, LAMBDA l : l \in sd.card)

\* C30: of the array get_ordered_mp3_files returns, every non-empty entry is
\* the /music path of a line of the order file whose file is on the card;
\* the non-empty entries come first and follow the order of the lines; a
\* listed file that is not on the card is in no entry.
C30_OrderedExisting ==
  sd.pc = "done" =>
    /\ \A j \in Filled :
         /\ sd.files[j].dir = "/sdcard/music"
         /\ sd.files[j].name \in sd.card
         /\ \E k \in DOMAIN sd.lines : sd.lines[k] = sd.files[j].name
    /\ \A j \in Filled : \A h \in 1..j : h \in Filled
    /\ \A j \in Filled :
         j <= Len(Playable) /\ sd.files[j] = MusicPath(Playable[j])

====
